---- MODULE Spec2Model ----
(***************************************************************************)
(* Client facades of the SDK: PoolOperations (azure-mgmt-batch),           *)
(* check_domain_availability (azure-mgmt-cognitiveservices) and            *)
(* CertificateClient (azure-keyvault-certificates).                        *)
(*                                                                         *)
(* One caller drives the clients.  A call builds its request, sends it,    *)
(* receives the reply the service chooses and ends in an outcome (a        *)
(* returned value or a raised exception).  A long-running create/delete    *)
(* leaves a poller behind, a list call leaves a paged iterator behind;     *)
(* their callbacks are steps of their own.                                 *)
(***************************************************************************)
EXTENDS Integers, Sequences, FiniteSets, TLC

VARIABLES
    self,       \* attributes of the operations object: api_version, config
    uuidSeq,    \* number of uuid.uuid1() values drawn so far
    call,       \* the latest call of the caller: operation, arguments, requests sent, outcome
    poller,     \* the AzureOperationPoller returned by create/delete (raw=False)
    paged       \* the PoolPaged iterator returned by list_by_batch_account

vars == <<self, uuidSeq, call, poller, paged>>

-----------------------------------------------------------------------------
(* Bounds of the model *)

MaxUuid == 2        \* calls that draw a fresh client request id
MaxPolls == 2       \* status polls of one poller
MaxPages == 2       \* page fetches of one paged iterator

-----------------------------------------------------------------------------
(* Python values *)

None == "None"                          \* None where a string is expected
PyNone == [type |-> "NoneType"]         \* None where an object is expected
NoValue == [type |-> "<nothing returned>"]
EmptyDict == <<>>

DictGet(d, k) == IF k \in DOMAIN d THEN d[k] ELSE None
DictSet(d, k, v) == [x \in (DOMAIN d) \cup {k} |-> IF x = k THEN v ELSE d[x]]
DictUpdate(d, e) == [x \in (DOMAIN d) \cup (DOMAIN e) |-> IF x \in DOMAIN e THEN e[x] ELSE d[x]]

RECURSIVE Flatten(_)
Flatten(ss) == IF ss = <<>> THEN <<>> ELSE Head(ss) \o Flatten(Tail(ss))

Return(v) == [kind |-> "return", value |-> v, exc |-> None, request_id |-> None]
Raise(e, rid) == [kind |-> "raise", value |-> NoValue, exc |-> e, request_id |-> rid]
NoOutcome == [kind |-> "none", value |-> NoValue, exc |-> None, request_id |-> None]

-----------------------------------------------------------------------------
(* Optional arguments: Python None is Absent, a given value v is Given(v) *)

Absent == <<>>
Given(v) == <<v>>
IsGiven(o) == o # <<>>
ValueOf(o) == o[1]

-----------------------------------------------------------------------------
(* Text that goes into a URL is a sequence of characters *)

Letters == {"a", "b", "c", "g", "l", "m", "n", "o", "p", "r", "s", "t", "u", "e", "q"}
Digits == {"0", "1", "2", "3", "4", "5", "6", "7", "8", "9"}

\* urllib quote(value, safe=''): letters, digits and "_.-~" are kept, the rest is percent-encoded
Unreserved == Letters \cup Digits \cup {"_", ".", "-", "~"}
PercentEncoded(c) == CASE c = "/" -> "%2F" [] c = " " -> "%20" [] c = "'" -> "%27" [] OTHER -> "%3F"
Quote(s) == [i \in DOMAIN s |-> IF s[i] \in Unreserved THEN s[i] ELSE PercentEncoded(s[i])]

\* str(n) of a non-negative int
DigitChar(d) == <<"0", "1", "2", "3", "4", "5", "6", "7", "8", "9">>[d + 1]
RECURSIVE IntToStr(_)
IntToStr(n) == IF n < 10 THEN <<DigitChar(n)>> ELSE IntToStr(n \div 10) \o <<DigitChar(n % 10)>>

\* pattern r'^[-\w\._]+$' of account_name
AccountNameChars == Letters \cup Digits \cup {"_", "-", "."}
\* pattern r'^[a-zA-Z0-9_-]+$' of pool_name
PoolNameChars == Letters \cup Digits \cup {"_", "-"}

AccountNameMinLength == 3
AccountNameMaxLength == 24
PoolNameMinLength == 1
PoolNameMaxLength == 64

\* Serializer.url(name, data, 'str', max_length, min_length, pattern): validate, then quote
Validates(data, min_length, max_length, chars) ==
    /\ Len(data) >= min_length
    /\ Len(data) <= max_length
    /\ Len(data) >= 1
    /\ \A i \in DOMAIN data : data[i] \in chars

\* Serializer.url(name, data, 'str') without constraints
serialize_url(data) == Quote(data)

\* Serializer.query(name, data, 'str') and Serializer.query(name, data, 'int')
serialize_query_str(data) == Quote(data)
serialize_query_int(data) == Quote(IntToStr(data))

\* Serializer.header(name, data, 'str')
serialize_header(data) == data

\* Serializer.body(parameters, type)
serialize_body(parameters, type) == [type |-> type, content |-> parameters]

\* Deserializer: the typed object read from the body of a response
deserialize(type, response) == [type |-> type, content |-> response.body]

-----------------------------------------------------------------------------
(* URL templates (the metadata['url'] of each operation) *)

list_by_batch_account_url ==
    <<"/subscriptions/", "{subscriptionId}", "/resourceGroups/", "{resourceGroupName}",
      "/providers/Microsoft.Batch/batchAccounts/", "{accountName}", "/pools">>
create_url ==
    <<"/subscriptions/", "{subscriptionId}", "/resourceGroups/", "{resourceGroupName}",
      "/providers/Microsoft.Batch/batchAccounts/", "{accountName}", "/pools/", "{poolName}">>
update_url ==
    <<"/subscriptions/", "{subscriptionId}", "/resourceGroups/", "{resourceGroupName}",
      "/providers/Microsoft.Batch/batchAccounts/", "{accountName}", "/pools/", "{poolName}">>
delete_url ==
    <<"/subscriptions/", "{subscriptionId}", "/resourceGroups/", "{resourceGroupName}",
      "/providers/Microsoft.Batch/batchAccounts/", "{accountName}", "/pools/", "{poolName}">>
get_url ==
    <<"/subscriptions/", "{subscriptionId}", "/resourceGroups/", "{resourceGroupName}",
      "/providers/Microsoft.Batch/batchAccounts/", "{accountName}", "/pools/", "{poolName}">>
disable_auto_scale_url ==
    <<"/subscriptions/", "{subscriptionId}", "/resourceGroups/", "{resourceGroupName}",
      "/providers/Microsoft.Batch/batchAccounts/", "{accountName}", "/pools/", "{poolName}",
      "/disableAutoScale">>
stop_resize_url ==
    <<"/subscriptions/", "{subscriptionId}", "/resourceGroups/", "{resourceGroupName}",
      "/providers/Microsoft.Batch/batchAccounts/", "{accountName}", "/pools/", "{poolName}",
      "/stopResize">>
check_domain_availability_url == <<"/providers/Microsoft.CognitiveServices/checkDomainAvailability">>

\* self._client.format_url(url, **path_format_arguments): every {placeholder} is replaced
format_url(url, path_format_arguments) ==
    Flatten([i \in DOMAIN url |->
                IF url[i] \in DOMAIN path_format_arguments
                THEN path_format_arguments[url[i]]
                ELSE <<url[i]>>])

-----------------------------------------------------------------------------
(* Requests and responses *)

NoBody == [type |-> "NoneType", content |-> None]

\* self._client.get/put/patch/post/delete(url, query_parameters)
ClientRequest(method, url, query_parameters) ==
    [method |-> method, url |-> url, query |-> query_parameters,
     headers |-> EmptyDict, body |-> NoBody]

\* self._client.send(request, header_parameters, body_content): the request as it goes out
Prepared(request, header_parameters, body_content) ==
    [request EXCEPT !.headers = DictUpdate(@, header_parameters), !.body = body_content]

\* what the service answers: a status code, headers, a body, and the state of the
\* long-running operation the body or headers describe
StatusCodes == {200, 201, 202, 204, 404}
ServerHeaders == {EmptyDict, ("x-ms-request-id" :> "srv-req-1" @@ "ETag" :> "etag-1")}
LroStatuses == {"InProgress", "Succeeded", "Failed"}
TerminalStatuses == {"Succeeded", "Failed"}

Replies ==
    {r \in [status_code : StatusCodes, headers : ServerHeaders, lro : LroStatuses] :
        (r.status_code \notin {200, 202, 204}) => (r.lro = "Failed")}

\* replies of an endpoint that is not long-running
PlainReplies == {r \in Replies : r.lro = "Succeeded" \/ r.status_code \notin {200, 202, 204}}

Response(request, reply) ==
    [status_code |-> reply.status_code, headers |-> reply.headers,
     body |-> "json-body", lro |-> reply.lro, request |-> request]

NoResponse ==
    [status_code |-> 0, headers |-> EmptyDict, body |-> None, lro |-> None,
     request |-> ClientRequest(None, <<>>, EmptyDict)]

\* faulty variant of CloudError: the request id of the response is not copied to the error
CloudError_without_request_id(response) == Raise("CloudError", None)

\* CloudError(response) with exp.request_id = response.headers.get('x-ms-request-id')
CloudError(response) == Raise("CloudError", DictGet(response.headers, "x-ms-request-id"))

\* ClientRawResponse(output, response)
ClientRawResponse(output, response) ==
    [type |-> "ClientRawResponse", output |-> output, response |-> response, headers |-> EmptyDict]

\* client_raw_response.add_headers(header_dict): the named response headers, None when missing
add_headers(client_raw_response, header_dict) ==
    [client_raw_response EXCEPT !.headers =
        [k \in header_dict |-> DictGet(client_raw_response.response.headers, k)]]

-----------------------------------------------------------------------------
(* Inputs of the calls *)

ResourceGroupNames == {<<"r", "g">>}
\* names the constraints accept, and names they reject: too short, too long, a character
\* outside the pattern
AccountNames == {<<"a", "c", "c", "t">>, <<"a", "b">>, [i \in 1..25 |-> "a"]}
PoolNames == {<<"p", "o", "o", "l">>, <<"p", ".", "l">>, [i \in 1..65 |-> "p"]}
\* custom_headers=None and custom_headers={} are both falsy: EmptyDict stands for both
CustomHeaders ==
    {EmptyDict,
     ("Content-Type" :> "text/plain" @@ "x-ms-client-request-id" :> "caller-id"
      @@ "If-Match" :> "custom-etag" @@ "If-None-Match" :> "custom-etag"
      @@ "accept-language" :> "fr-FR")}
ETags == {None, "*"}
OperationConfigs == {EmptyDict, ("long_running_operation_timeout" :> 5)}
ConfigTimeouts == {30}
Locales == {None, "en-US"}

PoolArgs ==
    [resource_group_name : ResourceGroupNames, account_name : AccountNames,
     pool_name : PoolNames, custom_headers : CustomHeaders, raw : BOOLEAN]

-----------------------------------------------------------------------------
(* PoolOperations: the parts the operations share *)

\* str(uuid.uuid1()): a value no earlier call has drawn
uuid1 == "uuid-" \o ToString(uuidSeq)

\* faulty variant of header_parameters: the accept-language block is missing
header_parameters_without_locale(custom_headers, if_match, if_none_match) ==
    LET h0 == ("Content-Type" :> "application/json; charset=utf-8")
        h1 == IF self.config.generate_client_request_id
              THEN DictSet(h0, "x-ms-client-request-id", uuid1) ELSE h0
        h2 == IF custom_headers # EmptyDict THEN DictUpdate(h1, custom_headers) ELSE h1
        h3 == IF if_match # None THEN DictSet(h2, "If-Match", serialize_header(if_match)) ELSE h2
    IN  IF if_none_match # None
        THEN DictSet(h3, "If-None-Match", serialize_header(if_none_match)) ELSE h3

\* faulty variant of header_parameters: custom_headers are applied last
header_parameters_custom_last(custom_headers, if_match, if_none_match) ==
    LET h0 == ("Content-Type" :> "application/json; charset=utf-8")
        h1 == IF self.config.generate_client_request_id
              THEN DictSet(h0, "x-ms-client-request-id", uuid1) ELSE h0
        h2 == IF if_match # None THEN DictSet(h1, "If-Match", serialize_header(if_match)) ELSE h1
        h3 == IF if_none_match # None
              THEN DictSet(h2, "If-None-Match", serialize_header(if_none_match)) ELSE h2
        h4 == IF self.config.accept_language # None
              THEN DictSet(h3, "accept-language", serialize_header(self.config.accept_language))
              ELSE h3
    IN  IF custom_headers # EmptyDict THEN DictUpdate(h4, custom_headers) ELSE h4

\* "Construct headers" of a pool operation; if_match / if_none_match are None in the
\* operations that have no such argument
header_parameters(custom_headers, if_match, if_none_match) ==
    LET h0 == ("Content-Type" :> "application/json; charset=utf-8")
        h1 == IF self.config.generate_client_request_id
              THEN DictSet(h0, "x-ms-client-request-id", uuid1) ELSE h0
        h2 == IF custom_headers # EmptyDict THEN DictUpdate(h1, custom_headers) ELSE h1
        h3 == IF if_match # None THEN DictSet(h2, "If-Match", serialize_header(if_match)) ELSE h2
        h4 == IF if_none_match # None
              THEN DictSet(h3, "If-None-Match", serialize_header(if_none_match)) ELSE h3
    IN  IF self.config.accept_language # None
        THEN DictSet(h4, "accept-language", serialize_header(self.config.accept_language))
        ELSE h4

\* path_format_arguments of an operation on one pool
pool_path_format_arguments(args) ==
    ("{resourceGroupName}" :> serialize_url(args.resource_group_name)
     @@ "{accountName}" :> serialize_url(args.account_name)
     @@ "{poolName}" :> serialize_url(args.pool_name)
     @@ "{subscriptionId}" :> serialize_url(self.config.subscription_id))

\* faulty variant of pool_path_valid: the constraints of pool_name are not checked
pool_path_valid_account_only(args) ==
    Validates(args.account_name, AccountNameMinLength, AccountNameMaxLength, AccountNameChars)

\* the constraints Serializer.url checks on the path arguments of one pool
pool_path_valid(args) ==
    /\ Validates(args.account_name, AccountNameMinLength, AccountNameMaxLength, AccountNameChars)
    /\ Validates(args.pool_name, PoolNameMinLength, PoolNameMaxLength, PoolNameChars)

\* faulty variant of api_version_query: the api-version of another release is sent
api_version_query_of_2017 == ("api-version" :> <<"2", "0", "1", "7", "-", "0", "9", "-", "0", "1">>)

\* query_parameters of every operation built from a URL template
api_version_query == ("api-version" :> serialize_query_str(self.api_version))

\* faulty variant of pool_result: raw is ignored and the bare result is returned
pool_result_ignoring_raw(response, raw) ==
    IF response.status_code \notin {200}
    THEN CloudError(response)
    ELSE Return(deserialize("Pool", response))

\* status check, deserialization and raw wrapping of update, get, disable_auto_scale, stop_resize
pool_result(response, raw) ==
    IF response.status_code \notin {200}
    THEN CloudError(response)
    ELSE LET deserialized == IF response.status_code = 200
                             THEN deserialize("Pool", response) ELSE PyNone
             header_dict == IF response.status_code = 200 THEN {"ETag"} ELSE {}
         IN  IF raw
             THEN Return(add_headers(ClientRawResponse(deserialized, response), header_dict))
             ELSE Return(deserialized)

\* a call that failed before any request was built
Failed(exc) == [sent |-> <<>>, response |-> NoResponse, outcome |-> Raise(exc, None)]

-----------------------------------------------------------------------------
(* PoolOperations.update / get / disable_auto_scale / stop_resize *)

\* faulty variant of update_request: the request is a PUT
update_request_with_put(args) ==
    Prepared(ClientRequest("PUT", format_url(update_url, pool_path_format_arguments(args)),
                           api_version_query),
             header_parameters(args.custom_headers, args.if_match, None),
             serialize_body(args.parameters, "Pool"))

update_request(args) ==
    Prepared(ClientRequest("PATCH", format_url(update_url, pool_path_format_arguments(args)),
                           api_version_query),
             header_parameters(args.custom_headers, args.if_match, None),
             serialize_body(args.parameters, "Pool"))

\* faulty variant of get_request: raw=True asks the service for another representation
get_request_by_raw(args) ==
    Prepared(ClientRequest("GET", format_url(get_url, pool_path_format_arguments(args)),
                           IF args.raw THEN DictSet(api_version_query, "raw", <<"t", "r", "u", "e">>)
                           ELSE api_version_query),
             header_parameters(args.custom_headers, None, None), NoBody)

get_request(args) ==
    Prepared(ClientRequest("GET", format_url(get_url, pool_path_format_arguments(args)),
                           api_version_query),
             header_parameters(args.custom_headers, None, None), NoBody)

disable_auto_scale_request(args) ==
    Prepared(ClientRequest("POST", format_url(disable_auto_scale_url, pool_path_format_arguments(args)),
                           api_version_query),
             header_parameters(args.custom_headers, None, None), NoBody)

stop_resize_request(args) ==
    Prepared(ClientRequest("POST", format_url(stop_resize_url, pool_path_format_arguments(args)),
                           api_version_query),
             header_parameters(args.custom_headers, None, None), NoBody)

-----------------------------------------------------------------------------
(* The caller, the poller and the paged iterator *)

NoCall == [op |-> "none", args |-> EmptyDict, sent |-> <<>>, response |-> NoResponse,
           outcome |-> NoOutcome, invoked |-> <<>>]

NoPoller ==
    [pc |-> "none", op |-> "none", raw |-> FALSE, raw_result |-> PyNone,
     long_running_operation_timeout |-> 0, status |-> None, response |-> NoResponse,
     polls |-> 0, sent |-> <<>>, output |-> NoOutcome]

NoPaged == [pc |-> "none", args |-> EmptyDict, next_link |-> Absent, pages |-> 0]

\* the caller makes one call at a time, and no call that would draw more than MaxUuid ids
CallerFree == call.op = "none" /\ uuidSeq < MaxUuid

\* the caller is done with the outcome of its latest call (it waits for the result of a
\* poller; it may leave a paged iterator at any page) and turns to the next call
caller_continues ==
    /\ call.op # "none"
    /\ poller.pc \in {"none", "done"}
    /\ call' = NoCall
    /\ poller' = NoPoller
    /\ paged' = NoPaged
    /\ UNCHANGED <<self, uuidSeq>>

\* the call record of an operation that made one exchange r (or failed before it)
Completed(op, args, r) ==
    [op |-> op, args |-> args, sent |-> r.sent, response |-> r.response, outcome |-> r.outcome,
     invoked |-> IF "invoked" \in DOMAIN r THEN r.invoked ELSE <<>>]

\* uuid.uuid1() was called once if the headers were constructed
UuidDrawn(r) ==
    IF r.sent # <<>> /\ self.config.generate_client_request_id THEN uuidSeq + 1 ELSE uuidSeq

Finish(op, args, r) ==
    /\ call' = Completed(op, args, r)
    /\ uuidSeq' = UuidDrawn(r)
    /\ poller' = NoPoller
    /\ paged' = NoPaged
    /\ UNCHANGED self

-----------------------------------------------------------------------------
(* PoolOperations.update, get, disable_auto_scale, stop_resize *)

update_call(args, reply) ==
    IF ~pool_path_valid(args) THEN Failed("ValidationError")
    ELSE LET request == update_request(args)
             response == Response(request, reply)
         IN  [sent |-> <<request>>, response |-> response, outcome |-> pool_result(response, args.raw)]

get_call(args, reply) ==
    IF ~pool_path_valid(args) THEN Failed("ValidationError")
    ELSE LET request == get_request(args)
             response == Response(request, reply)
         IN  [sent |-> <<request>>, response |-> response, outcome |-> pool_result(response, args.raw)]

disable_auto_scale_call(args, reply) ==
    IF ~pool_path_valid(args) THEN Failed("ValidationError")
    ELSE LET request == disable_auto_scale_request(args)
             response == Response(request, reply)
         IN  [sent |-> <<request>>, response |-> response, outcome |-> pool_result(response, args.raw)]

stop_resize_call(args, reply) ==
    IF ~pool_path_valid(args) THEN Failed("ValidationError")
    ELSE LET request == stop_resize_request(args)
             response == Response(request, reply)
         IN  [sent |-> <<request>>, response |-> response, outcome |-> pool_result(response, args.raw)]

UpdateArgs ==
    [resource_group_name : ResourceGroupNames, account_name : AccountNames,
     pool_name : PoolNames, parameters : {"pool-parameters"}, if_match : ETags,
     custom_headers : CustomHeaders, raw : BOOLEAN]

update ==
    /\ CallerFree
    /\ \E args \in UpdateArgs, reply \in PlainReplies :
         Finish("update", args, update_call(args, reply))

get ==
    /\ CallerFree
    /\ \E args \in PoolArgs, reply \in PlainReplies :
         Finish("get", args, get_call(args, reply))

disable_auto_scale ==
    /\ CallerFree
    /\ \E args \in PoolArgs, reply \in PlainReplies :
         Finish("disable_auto_scale", args, disable_auto_scale_call(args, reply))

stop_resize ==
    /\ CallerFree
    /\ \E args \in PoolArgs, reply \in PlainReplies :
         Finish("stop_resize", args, stop_resize_call(args, reply))

-----------------------------------------------------------------------------
(* PoolOperations.create and PoolOperations.delete: the initial request *)

_create_initial(args, raw, reply) ==
    IF ~pool_path_valid(args) THEN Failed("ValidationError")
    ELSE LET request ==
                 Prepared(ClientRequest("PUT", format_url(create_url, pool_path_format_arguments(args)),
                                        api_version_query),
                          header_parameters(args.custom_headers, args.if_match, args.if_none_match),
                          serialize_body(args.parameters, "Pool"))
             response == Response(request, reply)
             deserialized == IF response.status_code = 200
                             THEN deserialize("Pool", response) ELSE PyNone
             header_dict == IF response.status_code = 200 THEN {"ETag"} ELSE {}
         IN  [sent |-> <<request>>, response |-> response,
              outcome |->
                 IF response.status_code \notin {200} THEN CloudError(response)
                 ELSE IF raw
                      THEN Return(add_headers(ClientRawResponse(deserialized, response), header_dict))
                      ELSE Return(deserialized)]

_delete_initial(args, raw, reply) ==
    IF ~pool_path_valid(args) THEN Failed("ValidationError")
    ELSE LET request ==
                 Prepared(ClientRequest("DELETE", format_url(delete_url, pool_path_format_arguments(args)),
                                        api_version_query),
                          header_parameters(args.custom_headers, None, None), NoBody)
             response == Response(request, reply)
         IN  [sent |-> <<request>>, response |-> response,
              outcome |->
                 IF response.status_code \notin {200, 202, 204} THEN CloudError(response)
                 ELSE IF raw
                      THEN Return(add_headers(ClientRawResponse(PyNone, response),
                                              {"Location", "Retry-After"}))
                      ELSE Return(PyNone)]

\* faulty variant of long_running_operation_timeout: the caller's override is not looked up
long_running_operation_timeout_of_config(operation_config) ==
    self.config.long_running_operation_timeout

\* operation_config.get('long_running_operation_timeout', self.config.long_running_operation_timeout)
long_running_operation_timeout(operation_config) ==
    IF "long_running_operation_timeout" \in DOMAIN operation_config
    THEN operation_config["long_running_operation_timeout"]
    ELSE self.config.long_running_operation_timeout

\* AzureOperationPoller(long_running_send, get_long_running_output, get_long_running_status,
\*                      long_running_operation_timeout): the callbacks close over raw_result and raw
AzureOperationPoller(op, raw_result, raw, timeout) ==
    [pc |-> "created", op |-> op, raw |-> raw, raw_result |-> raw_result,
     long_running_operation_timeout |-> timeout, status |-> None, response |-> NoResponse,
     polls |-> 0, sent |-> <<>>, output |-> NoOutcome]

PollerHandle == [type |-> "AzureOperationPoller"]

CreateArgs ==
    [resource_group_name : ResourceGroupNames, account_name : AccountNames,
     pool_name : PoolNames, parameters : {"pool-parameters"}, if_match : ETags,
     if_none_match : ETags, custom_headers : CustomHeaders, raw : BOOLEAN,
     operation_config : OperationConfigs]

DeleteArgs ==
    [resource_group_name : ResourceGroupNames, account_name : AccountNames,
     pool_name : PoolNames, custom_headers : CustomHeaders, raw : BOOLEAN,
     operation_config : OperationConfigs]

\* faulty variant of LongRunning: the `if raw: return raw_result` lines are missing
LongRunning_without_raw_return(op, args, initial) ==
    /\ uuidSeq' = UuidDrawn(initial)
    /\ paged' = NoPaged
    /\ UNCHANGED self
    /\ IF initial.outcome.kind = "raise"
       THEN /\ call' = Completed(op, args, initial)
            /\ poller' = NoPoller
       ELSE /\ call' = [Completed(op, args, initial) EXCEPT !.outcome = Return(PollerHandle)]
            /\ poller' = AzureOperationPoller(op, initial.outcome.value, args.raw,
                                              long_running_operation_timeout(args.operation_config))

\* the part of create and delete after the initial request
LongRunning(op, args, initial) ==
    /\ uuidSeq' = UuidDrawn(initial)
    /\ paged' = NoPaged
    /\ UNCHANGED self
    /\ IF initial.outcome.kind = "raise" \/ args.raw
       THEN /\ call' = Completed(op, args, initial)
            /\ poller' = NoPoller
       ELSE /\ call' = [Completed(op, args, initial) EXCEPT !.outcome = Return(PollerHandle)]
            /\ poller' = AzureOperationPoller(op, initial.outcome.value, args.raw,
                                              long_running_operation_timeout(args.operation_config))

create ==
    /\ CallerFree
    /\ \E args \in CreateArgs, reply \in Replies :
         LongRunning("create", args, _create_initial(args, TRUE, reply))

delete ==
    /\ CallerFree
    /\ \E args \in DeleteArgs, reply \in Replies :
         LongRunning("delete", args, _delete_initial(args, TRUE, reply))

-----------------------------------------------------------------------------
(* The callbacks of the poller *)

\* the link the poller follows; it reads it from the initial response
StatusLinks == {<<"/operationResults/1">>}

\* def long_running_send(): return raw_result.response
long_running_send_result(raw_result) == raw_result.response

\* faulty variant of get_long_running_status_request: a fresh client request id is drawn
get_long_running_status_request_fresh_id(raw_result, status_link, headers) ==
    LET request == ClientRequest("GET", status_link, EmptyDict)
        request1 == IF headers # EmptyDict
                    THEN [request EXCEPT !.headers = DictUpdate(@, headers)] ELSE request
        header_parameters1 == ("x-ms-client-request-id" :> uuid1)
    IN  Prepared(request1, header_parameters1, NoBody)

\* def get_long_running_status(status_link, headers=None): the request it sends
get_long_running_status_request(raw_result, status_link, headers) ==
    LET request == ClientRequest("GET", status_link, EmptyDict)
        request1 == IF headers # EmptyDict
                    THEN [request EXCEPT !.headers = DictUpdate(@, headers)] ELSE request
        header_parameters1 ==
            ("x-ms-client-request-id" :> raw_result.response.request.headers["x-ms-client-request-id"])
    IN  Prepared(request1, header_parameters1, NoBody)

\* raw_result.response.request.headers['x-ms-client-request-id'] raises KeyError
get_long_running_status_raises(raw_result) ==
    "x-ms-client-request-id" \notin DOMAIN raw_result.response.request.headers

\* faulty variant of create_get_long_running_output: the status of the response is not checked
create_get_long_running_output_unchecked(response, raw) ==
    LET deserialized == deserialize("Pool", response)
    IN  IF raw
        THEN Return(add_headers(ClientRawResponse(deserialized, response), {"ETag"}))
        ELSE Return(deserialized)

\* def get_long_running_output(response) of create
create_get_long_running_output(response, raw) ==
    IF response.status_code \notin {200}
    THEN CloudError(response)
    ELSE LET deserialized == deserialize("Pool", response)
         IN  IF raw
             THEN Return(add_headers(ClientRawResponse(deserialized, response), {"ETag"}))
             ELSE Return(deserialized)

\* faulty variant of delete_get_long_running_output: only 200 is taken for success
delete_get_long_running_output_only_200(response, raw) ==
    IF response.status_code \notin {200}
    THEN CloudError(response)
    ELSE IF raw
         THEN Return(add_headers(ClientRawResponse(PyNone, response), {"Location", "Retry-After"}))
         ELSE Return(PyNone)

\* def get_long_running_output(response) of delete
delete_get_long_running_output(response, raw) ==
    IF response.status_code \notin {200, 202, 204}
    THEN CloudError(response)
    ELSE IF raw
         THEN Return(add_headers(ClientRawResponse(PyNone, response), {"Location", "Retry-After"}))
         ELSE Return(PyNone)

\* the poller: it takes the initial response, polls while the status it last saw is not
\* terminal, and hands the last response to get_long_running_output once it is
PollerShouldPoll(p) == p.pc = "polling" /\ p.status \notin TerminalStatuses
PollerShouldFinish(p) == p.pc = "polling" /\ p.status \in TerminalStatuses

long_running_send ==
    /\ poller.pc = "created"
    /\ poller' = [poller EXCEPT !.pc = "polling",
                                !.response = long_running_send_result(poller.raw_result),
                                !.status = long_running_send_result(poller.raw_result).lro]
    /\ UNCHANGED <<self, uuidSeq, call, paged>>

\* faulty variant of get_long_running_status: the request id of the initial request is
\* looked up with headers.get, so a missing one is sent as None instead of raising
get_long_running_status_with_get ==
    /\ PollerShouldPoll(poller)
    /\ poller.polls < MaxPolls
    /\ \E status_link \in StatusLinks, reply \in Replies :
         LET request ==
                 Prepared(ClientRequest("GET", status_link, EmptyDict),
                          ("x-ms-client-request-id" :>
                              DictGet(poller.raw_result.response.request.headers,
                                      "x-ms-client-request-id")),
                          NoBody)
         IN  poller' = [poller EXCEPT !.polls = @ + 1,
                                      !.sent = Append(@, request),
                                      !.response = Response(request, reply),
                                      !.status = reply.lro]
    /\ UNCHANGED <<self, uuidSeq, call, paged>>

get_long_running_status ==
    /\ PollerShouldPoll(poller)
    /\ poller.polls < MaxPolls
    /\ IF get_long_running_status_raises(poller.raw_result)
       THEN poller' = [poller EXCEPT !.pc = "done", !.output = Raise("KeyError", None)]
       ELSE \E status_link \in StatusLinks, reply \in Replies :
              LET request == get_long_running_status_request(poller.raw_result, status_link, EmptyDict)
              IN  poller' = [poller EXCEPT !.polls = @ + 1,
                                           !.sent = Append(@, request),
                                           !.response = Response(request, reply),
                                           !.status = reply.lro]
    /\ UNCHANGED <<self, uuidSeq, call, paged>>

get_long_running_output ==
    /\ PollerShouldFinish(poller)
    /\ poller' = [poller EXCEPT
                    !.pc = "done",
                    !.output = IF poller.op = "create"
                               THEN create_get_long_running_output(poller.response, poller.raw)
                               ELSE delete_get_long_running_output(poller.response, poller.raw)]
    /\ UNCHANGED <<self, uuidSeq, call, paged>>

-----------------------------------------------------------------------------
(* PoolOperations.list_by_batch_account and its internal_paging *)

ListArgs ==
    [resource_group_name : ResourceGroupNames, account_name : AccountNames,
     maxresults : {Absent, Given(0), Given(5)}, select : {Absent, Given(<<"n", "a", "m", "e">>)},
     filter : {Absent, Given(<<"n", "a", "m", "e", " ", "e", "q", " ", "'", "p", "'">>)},
     custom_headers : CustomHeaders, raw : BOOLEAN]

\* the next link a page of the service names, if any
NextLinks == {Absent, Given(<<"https://next-link/page">>)}

\* faulty variant of list_query_parameters: maxresults is tested for truth, not against None
list_query_parameters_by_truth(args) ==
    LET q0 == EmptyDict
        q1 == IF IsGiven(args.maxresults) /\ ValueOf(args.maxresults) # 0
              THEN DictSet(q0, "maxresults", serialize_query_int(ValueOf(args.maxresults))) ELSE q0
        q2 == IF IsGiven(args.select)
              THEN DictSet(q1, "$select", serialize_query_str(ValueOf(args.select))) ELSE q1
        q3 == IF IsGiven(args.filter)
              THEN DictSet(q2, "$filter", serialize_query_str(ValueOf(args.filter))) ELSE q2
    IN  DictSet(q3, "api-version", serialize_query_str(self.api_version))

\* "Construct parameters" of the first page
list_query_parameters(args) ==
    LET q0 == EmptyDict
        q1 == IF IsGiven(args.maxresults)
              THEN DictSet(q0, "maxresults", serialize_query_int(ValueOf(args.maxresults))) ELSE q0
        q2 == IF IsGiven(args.select)
              THEN DictSet(q1, "$select", serialize_query_str(ValueOf(args.select))) ELSE q1
        q3 == IF IsGiven(args.filter)
              THEN DictSet(q2, "$filter", serialize_query_str(ValueOf(args.filter))) ELSE q2
    IN  DictSet(q3, "api-version", serialize_query_str(self.api_version))

\* "Construct URL" of the first page
list_path_format_arguments(args) ==
    ("{resourceGroupName}" :> serialize_url(args.resource_group_name)
     @@ "{accountName}" :> serialize_url(args.account_name)
     @@ "{subscriptionId}" :> serialize_url(self.config.subscription_id))

\* faulty variant of internal_paging_call: the query parameters of the first page are
\* attached to the next link as well
internal_paging_call_with_query(args, next_link, reply) ==
    IF ~IsGiven(next_link)
       /\ ~Validates(args.account_name, AccountNameMinLength, AccountNameMaxLength, AccountNameChars)
    THEN Failed("ValidationError")
    ELSE LET url == IF ~IsGiven(next_link)
                    THEN format_url(list_by_batch_account_url, list_path_format_arguments(args))
                    ELSE ValueOf(next_link)
             query_parameters == list_query_parameters(args)
             request == Prepared(ClientRequest("GET", url, query_parameters),
                                 header_parameters(args.custom_headers, None, None), NoBody)
             response == Response(request, reply)
         IN  [sent |-> <<request>>, response |-> response,
              outcome |-> IF response.status_code \notin {200}
                          THEN CloudError(response) ELSE Return(response)]

\* def internal_paging(next_link=None, raw=False)
internal_paging_call(args, next_link, reply) ==
    IF ~IsGiven(next_link)
       /\ ~Validates(args.account_name, AccountNameMinLength, AccountNameMaxLength, AccountNameChars)
    THEN Failed("ValidationError")
    ELSE LET url == IF ~IsGiven(next_link)
                    THEN format_url(list_by_batch_account_url, list_path_format_arguments(args))
                    ELSE ValueOf(next_link)
             query_parameters == IF ~IsGiven(next_link) THEN list_query_parameters(args) ELSE EmptyDict
             request == Prepared(ClientRequest("GET", url, query_parameters),
                                 header_parameters(args.custom_headers, None, None), NoBody)
             response == Response(request, reply)
         IN  [sent |-> <<request>>, response |-> response,
              outcome |-> IF response.status_code \notin {200}
                          THEN CloudError(response) ELSE Return(response)]

\* models.PoolPaged(internal_paging, dependencies[, header_dict]): nothing is fetched yet
PoolPaged(args) == [pc |-> "ready", args |-> args, next_link |-> Absent, pages |-> 0]

list_by_batch_account ==
    /\ CallerFree
    /\ \E args \in ListArgs :
         /\ call' = [op |-> "list_by_batch_account", args |-> args, sent |-> <<>>,
                     response |-> NoResponse, invoked |-> <<>>,
                     outcome |-> Return([type |-> "PoolPaged", raw |-> args.raw])]
         /\ paged' = PoolPaged(args)
    /\ poller' = NoPoller
    /\ UNCHANGED <<self, uuidSeq>>

\* the iterator asks for its next page: the first one, or the one its next link names
internal_paging ==
    /\ paged.pc \in {"ready", "more"}
    /\ paged.pages < MaxPages
    /\ uuidSeq < MaxUuid
    /\ \E reply \in PlainReplies, link \in NextLinks :
         LET r == internal_paging_call(paged.args, paged.next_link, reply)
         IN  /\ call' = Completed("internal_paging",
                                  [next_link |-> paged.next_link] @@ paged.args, r)
             /\ uuidSeq' = UuidDrawn(r)
             /\ paged' = IF r.outcome.kind = "raise"
                         THEN [paged EXCEPT !.pc = "failed"]
                         ELSE [paged EXCEPT !.pc = IF IsGiven(link) THEN "more" ELSE "exhausted",
                                            !.next_link = link,
                                            !.pages = @ + 1]
    /\ UNCHANGED <<self, poller>>

-----------------------------------------------------------------------------
(* CognitiveServicesManagementClientOperationsMixin.check_domain_availability *)

\* self.api_version of the cognitive services client
cognitive_api_version == <<"2", "0", "1", "7", "-", "0", "4", "-", "1", "8">>

CheckDomainArgs ==
    [subdomain_name : {"contoso"}, type : {"Microsoft.CognitiveServices/accounts"},
     custom_headers : CustomHeaders, raw : BOOLEAN]

\* models.CheckDomainAvailabilityParameter(subdomain_name=subdomain_name, type=type)
CheckDomainAvailabilityParameter(subdomain_name, type) ==
    [subdomain_name |-> subdomain_name, type |-> type]

check_domain_availability_headers(custom_headers) ==
    LET h0 == ("Accept" :> "application/json")
        h1 == DictSet(h0, "Content-Type", "application/json; charset=utf-8")
        h2 == IF self.config.generate_client_request_id
              THEN DictSet(h1, "x-ms-client-request-id", uuid1) ELSE h1
        h3 == IF custom_headers # EmptyDict THEN DictUpdate(h2, custom_headers) ELSE h2
    IN  IF self.config.accept_language # None
        THEN DictSet(h3, "accept-language", serialize_header(self.config.accept_language))
        ELSE h3

check_domain_availability_result(response, raw) ==
    IF response.status_code \notin {200}
    THEN CloudError(response)
    ELSE LET deserialized == IF response.status_code = 200
                             THEN deserialize("CheckDomainAvailabilityResult", response)
                             ELSE PyNone
         IN  IF raw THEN Return(ClientRawResponse(deserialized, response))
             ELSE Return(deserialized)

check_domain_availability_call(args, reply) ==
    LET parameters == CheckDomainAvailabilityParameter(args.subdomain_name, args.type)
        url == check_domain_availability_url
        query_parameters == ("api-version" :> serialize_query_str(cognitive_api_version))
        request == Prepared(ClientRequest("POST", url, query_parameters),
                            check_domain_availability_headers(args.custom_headers),
                            serialize_body(parameters, "CheckDomainAvailabilityParameter"))
        response == Response(request, reply)
    IN  [sent |-> <<request>>, response |-> response,
         outcome |-> check_domain_availability_result(response, args.raw)]

check_domain_availability ==
    /\ CallerFree
    /\ \E args \in CheckDomainArgs, reply \in PlainReplies :
         Finish("check_domain_availability", args, check_domain_availability_call(args, reply))

-----------------------------------------------------------------------------
(* CertificateClient (Key Vault certificates) *)

vault_url == "https://myvault.vault.azure.net"

KeyVaultStatusCodes == {200, 404, 409}
KeyVaultReplies == [status_code : KeyVaultStatusCodes, headers : {EmptyDict}, lro : {None}]

\* the parameters a method of the generated KeyVaultClient cannot be called without
RequiredParameters(operation) ==
    CASE operation = "get_deleted_certificate" -> {"vault_base_url", "certificate_name"}
      [] operation = "backup_certificate" -> {"vault_base_url", "certificate_name"}
      [] operation = "restore_certificate" -> {"vault_base_url", "certificate_bundle_backup"}
      [] operation = "set_certificate_issuer" -> {"vault_base_url", "issuer_name", "provider"}
      [] operation = "update_certificate_issuer" -> {"vault_base_url", "issuer_name"}

\* what the service sends back on success
ServiceBundle(operation, kwargs) ==
    CASE operation = "get_deleted_certificate" ->
            [type |-> "DeletedCertificateBundle", vault |-> kwargs.vault_base_url,
             name |-> kwargs.certificate_name]
      [] operation = "backup_certificate" ->
            [type |-> "BackupCertificateResult",
             value |-> [type |-> "bytes", of |-> kwargs.certificate_name]]
      [] operation = "restore_certificate" ->
            [type |-> "CertificateBundle", vault |-> kwargs.vault_base_url,
             name |-> kwargs.certificate_bundle_backup.of]
      [] operation \in {"set_certificate_issuer", "update_certificate_issuer"} ->
            [type |-> "IssuerBundle", vault |-> kwargs.vault_base_url,
             name |-> kwargs.issuer_name, provider |-> kwargs.provider,
             organization_details |-> kwargs.organization_details]

\* a method of the generated KeyVaultClient, self._client.<operation>(**kwargs): Python binds
\* the arguments (TypeError when a required one is missing), the request is sent, a status
\* other than 200 is raised as error_map names it, or as HttpResponseError
generated_client_call(operation, kwargs, reply) ==
    IF ~(RequiredParameters(operation) \subseteq DOMAIN kwargs)
    THEN [invoked |-> <<[operation |-> operation, kwargs |-> kwargs]>>, sent |-> <<>>,
          response |-> NoResponse, outcome |-> Raise("TypeError", None)]
    ELSE LET response == Response(NoResponse.request, reply)
             error_map == IF "error_map" \in DOMAIN kwargs THEN kwargs.error_map ELSE EmptyDict
         IN  [invoked |-> <<[operation |-> operation, kwargs |-> kwargs]>>, sent |-> <<>>,
              response |-> response,
              outcome |->
                 IF reply.status_code \notin {200}
                 THEN IF reply.status_code \in DOMAIN error_map
                      THEN Raise(error_map[reply.status_code], None)
                      ELSE Raise("HttpResponseError", None)
                 ELSE Return(ServiceBundle(operation, kwargs))]

\* the classmethods of _models that turn a bundle of the service into a model of the client
_from_deleted_certificate_bundle(bundle) ==
    [type |-> "DeletedCertificate", vault |-> bundle.vault, name |-> bundle.name]
_from_certificate_bundle(bundle) ==
    [type |-> "Certificate", vault |-> bundle.vault, name |-> bundle.name]
_from_issuer_bundle(bundle) ==
    [type |-> "Issuer", vault |-> bundle.vault, name |-> bundle.name, provider |-> bundle.provider,
     organization_details |-> bundle.organization_details]

\* the wrapper returns what the conversion makes of the bundle, or lets the exception through
Converted(r, value) == IF r.outcome.kind = "raise" THEN r ELSE [r EXCEPT !.outcome = Return(value)]

get_deleted_certificate_kwargs(name) ==
    [vault_base_url |-> vault_url, certificate_nae |-> name,
     error_map |-> (404 :> "ResourceNotFoundError")]

get_deleted_certificate_call(args, reply) ==
    LET r == generated_client_call("get_deleted_certificate",
                                   get_deleted_certificate_kwargs(args.name), reply)
    IN  IF r.outcome.kind = "raise" THEN r
        ELSE Converted(r, _from_deleted_certificate_bundle(r.outcome.value))

\* faulty variant of backup_certificate_kwargs: no error_map is passed
backup_certificate_kwargs_without_error_map(name) ==
    [vault_base_url |-> vault_url, certificate_name |-> name]

backup_certificate_kwargs(name) ==
    [vault_base_url |-> vault_url, certificate_name |-> name,
     error_map |-> (404 :> "ResourceNotFoundError")]

backup_certificate_call(args, reply) ==
    LET r == generated_client_call("backup_certificate", backup_certificate_kwargs(args.name), reply)
    IN  IF r.outcome.kind = "raise" THEN r ELSE Converted(r, r.outcome.value.value)

restore_certificate_kwargs(backup) ==
    [vault_base_url |-> vault_url, certificate_bundle_backup |-> backup,
     error_map |-> (409 :> "ResourceExistsError")]

restore_certificate_call(args, reply) ==
    LET r == generated_client_call("restore_certificate", restore_certificate_kwargs(args.backup), reply)
    IN  IF r.outcome.kind = "raise" THEN r
        ELSE Converted(r, _from_certificate_bundle(r.outcome.value))

CertificateNames == {"cert-a", "cert-b"}
CertificateArgs == [name : CertificateNames]
RestoreArgs == [backup : {[type |-> "bytes", of |-> n] : n \in CertificateNames}]

\* a call that failed in the wrapper, before the generated client was called
FailedEarly(exc) ==
    [invoked |-> <<>>, sent |-> <<>>, response |-> NoResponse, outcome |-> Raise(exc, None)]

get_deleted_certificate ==
    /\ CallerFree
    /\ \E args \in CertificateArgs, reply \in KeyVaultReplies :
         Finish("get_deleted_certificate", args, get_deleted_certificate_call(args, reply))

backup_certificate ==
    /\ CallerFree
    /\ \E args \in CertificateArgs, reply \in KeyVaultReplies :
         Finish("backup_certificate", args, backup_certificate_call(args, reply))

restore_certificate ==
    /\ CallerFree
    /\ \E args \in RestoreArgs, reply \in KeyVaultReplies :
         Finish("restore_certificate", args, restore_certificate_call(args, reply))

-----------------------------------------------------------------------------
(* CertificateClient.create_issuer and update_issuer *)

\* truth value of an Optional[str]
Truthy(x) == x # None /\ x # ""

AdminDetail == [first_name |-> "Ada", last_name |-> "Smith", email |-> "ada@example.com",
                phone |-> "555-0100"]

\* admin_details: None, [], the default [None], or a list of AdministratorDetails
AdminDetailsChoices == {Absent, Given(<<>>), Given(<<PyNone>>), Given(<<AdminDetail>>)}

IssuerArgs ==
    [name : {"issuer-a"}, provider : {"Test"}, account_id : {None, "keyvaultuser"},
     password : {None}, organization_id : {None, "org-1"},
     admin_details : AdminDetailsChoices, enabled : {Absent, Given(TRUE)}]

\* self._client.models.AdministratorDetails(first_name=..., last_name=..., email_address=..., phone=...)
AdministratorDetails(admin_detail) ==
    [type |-> "AdministratorDetails", first_name |-> admin_detail.first_name,
     last_name |-> admin_detail.last_name, email_address |-> admin_detail.email,
     phone |-> admin_detail.phone]

\* admin_details[0] raises: TypeError on None, IndexError on an empty list
admin_details_subscript_error(admin_details) ==
    IF ~IsGiven(admin_details) THEN "TypeError"
    ELSE IF ValueOf(admin_details) = <<>> THEN "IndexError" ELSE None

\* the arguments create_issuer and update_issuer hand to the generated client
issuer_kwargs(args) ==
    LET admin_details == ValueOf(args.admin_details)
        issuer_credentials ==
            IF Truthy(args.account_id) \/ Truthy(args.password)
            THEN [type |-> "IssuerCredentials", account_id |-> args.account_id,
                  password |-> args.password]
            ELSE PyNone
        admin_details_to_pass ==
            IF admin_details[1] # PyNone
            THEN [i \in DOMAIN admin_details |-> AdministratorDetails(admin_details[i])]
            ELSE admin_details
        organization_details ==
            IF Truthy(args.organization_id) \/ admin_details # <<>>
            THEN [type |-> "OrganizationDetails", id |-> args.organization_id,
                  admin_details |-> admin_details_to_pass]
            ELSE PyNone
        issuer_attributes ==
            IF IsGiven(args.enabled)
            THEN [type |-> "IssuerAttributes", enabled |-> ValueOf(args.enabled)]
            ELSE PyNone
    IN  [vault_base_url |-> vault_url, issuer_name |-> args.name, provider |-> args.provider,
         credentials |-> issuer_credentials, organization_details |-> organization_details,
         attributes |-> issuer_attributes]

create_issuer_call(args, reply) ==
    IF admin_details_subscript_error(args.admin_details) # None
    THEN FailedEarly(admin_details_subscript_error(args.admin_details))
    ELSE LET r == generated_client_call("set_certificate_issuer", issuer_kwargs(args), reply)
         IN  IF r.outcome.kind = "raise" THEN r
             ELSE Converted(r, _from_issuer_bundle(r.outcome.value))

update_issuer_call(args, reply) ==
    IF admin_details_subscript_error(args.admin_details) # None
    THEN FailedEarly(admin_details_subscript_error(args.admin_details))
    ELSE LET r == generated_client_call("update_certificate_issuer", issuer_kwargs(args), reply)
         IN  IF r.outcome.kind = "raise" THEN r
             ELSE Converted(r, _from_issuer_bundle(r.outcome.value))

create_issuer ==
    /\ CallerFree
    /\ \E args \in IssuerArgs, reply \in KeyVaultReplies :
         Finish("create_issuer", args, create_issuer_call(args, reply))

update_issuer ==
    /\ CallerFree
    /\ \E args \in IssuerArgs, reply \in KeyVaultReplies :
         Finish("update_issuer", args, update_issuer_call(args, reply))

-----------------------------------------------------------------------------

Configs ==
    [generate_client_request_id : BOOLEAN, accept_language : Locales,
     long_running_operation_timeout : ConfigTimeouts, subscription_id : {<<"s", "u", "b">>}]

Init ==
    /\ self \in [api_version : {<<"2", "0", "1", "8", "-", "1", "2", "-", "0", "1">>}, config : Configs]
    /\ uuidSeq = 0
    /\ call = NoCall
    /\ poller = NoPoller
    /\ paged = NoPaged

Next ==
    \/ update
    \/ get
    \/ disable_auto_scale
    \/ stop_resize
    \/ create
    \/ delete
    \/ long_running_send
    \/ get_long_running_status
    \/ get_long_running_output
    \/ list_by_batch_account
    \/ internal_paging
    \/ check_domain_availability
    \/ get_deleted_certificate
    \/ backup_certificate
    \/ restore_certificate
    \/ create_issuer
    \/ update_issuer
    \/ caller_continues

Spec == Init /\ [][Next]_vars

\* the poller runs its callbacks in a thread of its own, which is never starved: once it has
\* the initial response or a terminal status, it goes on
LiveSpec ==
    Spec /\ WF_vars(long_running_send) /\ WF_vars(get_long_running_output)

-----------------------------------------------------------------------------
(* What the claims speak of *)

HttpOps == {"internal_paging", "create", "update", "delete", "get", "disable_auto_scale",
            "stop_resize", "check_domain_availability"}

\* the status codes an operation takes for success
SuccessSet(op) == IF op = "delete" THEN {200, 202, 204} ELSE {200}

\* the call exchanged a request and a response with the service
Answered == call.sent # <<>>

RequestId(response) ==
    IF "x-ms-request-id" \in DOMAIN response.headers THEN response.headers["x-ms-request-id"] ELSE None

IsCloudErrorOf(outcome, response) ==
    /\ outcome.kind = "raise"
    /\ outcome.exc = "CloudError"
    /\ outcome.request_id = RequestId(response)
    /\ outcome.value = NoValue

\* the poller has seen a terminal status: in the initial response or in a status response
TerminalObserved ==
    \/ poller.pc = "created" /\ poller.raw_result.response.lro \in TerminalStatuses
    \/ poller.pc = "polling" /\ poller.status \in TerminalStatuses

\* C1: in every pool operation and in check_domain_availability, a response whose status is
\* not in the success set of the operation raises CloudError carrying the x-ms-request-id of
\* that response, and nothing is returned; the same for the final response of a poller
C1_NonSuccessRaisesCloudError ==
    /\ (call.op \in HttpOps /\ Answered /\ call.response.status_code \notin SuccessSet(call.op))
          => IsCloudErrorOf(call.outcome, call.response)
    /\ (poller.pc = "done" /\ poller.status \in TerminalStatuses
          /\ poller.response.status_code \notin SuccessSet(poller.op))
          => IsCloudErrorOf(poller.output, poller.response)

C1_Witness ==
    /\ call.op = "get"
    /\ call.response.status_code = 404
    /\ call.outcome.exc = "CloudError"
    /\ call.outcome.request_id = "srv-req-1"

\* what a poller that finished on a terminal status has to surface
ExpectedOutput(p) ==
    IF p.response.status_code \in SuccessSet(p.op)
    THEN IF p.op = "create"
         THEN Return([type |-> "Pool", content |-> p.response.body])
         ELSE Return(PyNone)
    ELSE Raise("CloudError", RequestId(p.response))

PollerCompleted == poller.pc = "done" /\ poller.output = ExpectedOutput(poller)

Wire == call.sent \o poller.sent

\* C3: the initial PUT/DELETE is sent once and first, long_running_send hands over the
\* response already received, every later request is a GET on a status link, and the poller
\* surfaces no result and no error before it has observed a terminal status
C3_LongRunningOrdering ==
    poller.pc # "none" =>
        /\ Len(Wire) >= 1
        /\ Wire[1].method = (IF poller.op = "create" THEN "PUT" ELSE "DELETE")
        /\ \A i \in 2..Len(Wire) : Wire[i].method = "GET" /\ Wire[i].url \in StatusLinks
        /\ (poller.pc = "polling" /\ poller.polls = 0) => poller.response = call.response
        /\ poller.output # NoOutcome => poller.status \in TerminalStatuses

\* C4: the polling interval of the poller is operation_config['long_running_operation_timeout']
\* when the caller passed it, and config.long_running_operation_timeout otherwise
C4_PollingInterval ==
    poller.pc # "none" =>
        poller.long_running_operation_timeout =
            IF "long_running_operation_timeout" \in DOMAIN call.args.operation_config
            THEN call.args.operation_config["long_running_operation_timeout"]
            ELSE self.config.long_running_operation_timeout

C4_Witness ==
    /\ poller.pc = "polling"
    /\ poller.long_running_operation_timeout = 5
    /\ self.config.long_running_operation_timeout = 30

\* the requests the latest call and its poller have sent
RequestsSent == {Wire[i] : i \in DOMAIN Wire}
\* those built by the "Construct headers" block of an operation, and the status polls
OperationRequests == {call.sent[i] : i \in DOMAIN call.sent}
StatusPolls == {poller.sent[i] : i \in DOMAIN poller.sent}

LocaleSet == self.config.accept_language # None

\* C5 as stated: every request of a pool operation or of check_domain_availability carries
\* Content-Type, x-ms-client-request-id, and accept-language whenever a locale is configured
C5_EveryRequestCarriesRequiredHeaders ==
    call.op \in HttpOps =>
        \A request \in RequestsSent :
            /\ "Content-Type" \in DOMAIN request.headers
            /\ "x-ms-client-request-id" \in DOMAIN request.headers
            /\ LocaleSet => "accept-language" \in DOMAIN request.headers

\* C5, amended: a request built by an operation itself carries Content-Type, carries
\* accept-language (the configured locale) whenever a locale is configured, and carries
\* x-ms-client-request-id whenever the configuration generates one or custom_headers names
\* one; a status poll of create/delete carries the x-ms-client-request-id of the initial request
C5_RequiredHeadersAmended ==
    call.op \in HttpOps =>
        /\ \A request \in OperationRequests :
            /\ "Content-Type" \in DOMAIN request.headers
            /\ LocaleSet =>
                  /\ "accept-language" \in DOMAIN request.headers
                  /\ request.headers["accept-language"] = self.config.accept_language
            /\ (self.config.generate_client_request_id
                    \/ "x-ms-client-request-id" \in DOMAIN call.args.custom_headers)
                  => "x-ms-client-request-id" \in DOMAIN request.headers
        /\ \A request \in StatusPolls :
            /\ "x-ms-client-request-id" \in DOMAIN request.headers
            /\ request.headers["x-ms-client-request-id"]
                  = call.sent[1].headers["x-ms-client-request-id"]

C5_Witness ==
    /\ call.op = "delete"
    /\ LocaleSet
    /\ self.config.generate_client_request_id
    /\ Len(poller.sent) = MaxPolls
    /\ "accept-language" \in DOMAIN call.sent[1].headers
    /\ "Content-Type" \notin DOMAIN poller.sent[1].headers

\* the type an operation deserializes a 200 body into
ResultType(op) == IF op = "check_domain_availability" THEN "CheckDomainAvailabilityResult" ELSE "Pool"

\* C6: in update, get, disable_auto_scale, stop_resize and check_domain_availability a 200
\* response yields the typed result read from its body when raw=False, a ClientRawResponse of
\* that result and the response when raw=True, and never None
C6_SuccessYieldsTypedResult ==
    (call.op \in {"update", "get", "disable_auto_scale", "stop_resize", "check_domain_availability"}
        /\ Answered /\ call.response.status_code = 200)
    => LET typed == [type |-> ResultType(call.op), content |-> call.response.body]
       IN  /\ call.outcome.kind = "return"
           /\ call.outcome.value # PyNone
           /\ ~call.args.raw => call.outcome.value = typed
           /\ call.args.raw =>
                 /\ call.outcome.value.type = "ClientRawResponse"
                 /\ call.outcome.value.output = typed
                 /\ call.outcome.value.response = call.response

C6_Witness ==
    /\ call.op = "stop_resize"
    /\ call.args.raw
    /\ call.response.status_code = 200
    /\ call.outcome.value.type = "ClientRawResponse"
    /\ call.outcome.value.output.type = "Pool"

\* C7: get_deleted_certificate(name) calls get_deleted_certificate of the service for the
\* vault URL with certificate_name = name and returns the bundle as a DeletedCertificate
C7_GetDeletedCertificateByName ==
    call.op = "get_deleted_certificate" =>
        /\ Len(call.invoked) = 1
        /\ call.invoked[1].operation = "get_deleted_certificate"
        /\ "certificate_name" \in DOMAIN call.invoked[1].kwargs
        /\ call.invoked[1].kwargs["certificate_name"] = call.args.name
        /\ call.invoked[1].kwargs["vault_base_url"] = vault_url
        /\ call.response.status_code = 200 =>
              call.outcome = Return([type |-> "DeletedCertificate", vault |-> vault_url,
                                     name |-> call.args.name])

\* the error_map the latest call handed to the generated client
ErrorMapRequested ==
    IF "error_map" \in DOMAIN call.invoked[1].kwargs
    THEN call.invoked[1].kwargs["error_map"] ELSE EmptyDict

\* C8: backup_certificate and get_deleted_certificate ask for 404 to be raised as
\* ResourceNotFoundError, restore_certificate asks for 409 to be raised as ResourceExistsError,
\* and when the service answers so, that error is raised and nothing is returned
C8_KeyVaultErrorMapping ==
    /\ call.op \in {"backup_certificate", "get_deleted_certificate"} =>
          /\ Len(call.invoked) = 1
          /\ 404 \in DOMAIN ErrorMapRequested
          /\ ErrorMapRequested[404] = "ResourceNotFoundError"
          /\ call.response.status_code = 404 =>
                call.outcome = Raise("ResourceNotFoundError", None)
    /\ call.op = "restore_certificate" =>
          /\ Len(call.invoked) = 1
          /\ 409 \in DOMAIN ErrorMapRequested
          /\ ErrorMapRequested[409] = "ResourceExistsError"
          /\ call.response.status_code = 409 =>
                call.outcome = Raise("ResourceExistsError", None)

C8_Witness ==
    /\ call.op = "backup_certificate"
    /\ call.response.status_code = 404
    /\ call.outcome.kind = "raise"
    /\ call.outcome.exc = "ResourceNotFoundError"
    /\ call.outcome.value = NoValue

\* the first page is asked for: internal_paging ran without a next link and sent its request
FirstPageFetched == call.op = "internal_paging" /\ ~IsGiven(call.args.next_link) /\ Answered

\* C9: the request of the first page of list_by_batch_account has the URL of the template
\* with subscription id, resource group and account name substituted, always carries
\* api-version, and carries maxresults, $select and $filter exactly when the argument is given
C9_FirstPageRequest ==
    FirstPageFetched =>
        LET request == call.sent[1]
        IN  /\ request.url = <<"/subscriptions/">> \o Quote(self.config.subscription_id)
                              \o <<"/resourceGroups/">> \o Quote(call.args.resource_group_name)
                              \o <<"/providers/Microsoft.Batch/batchAccounts/">>
                              \o Quote(call.args.account_name) \o <<"/pools">>
            /\ "api-version" \in DOMAIN request.query
            /\ request.query["api-version"] = self.api_version
            /\ "maxresults" \in DOMAIN request.query <=> IsGiven(call.args.maxresults)
            /\ "$select" \in DOMAIN request.query <=> IsGiven(call.args.select)
            /\ "$filter" \in DOMAIN request.query <=> IsGiven(call.args.filter)
            /\ DOMAIN request.query \subseteq {"api-version", "maxresults", "$select", "$filter"}

C9_Witness ==
    /\ FirstPageFetched
    /\ call.args.maxresults = Given(0)
    /\ ~IsGiven(call.args.select)
    /\ IsGiven(call.args.filter)
    /\ DOMAIN call.sent[1].query = {"api-version", "maxresults", "$filter"}

\* C10: create_issuer and update_issuer called with admin_details None or [] make the service
\* call and return an Issuer when it succeeds; they do not raise before the request
C10_IssuerAcceptsAbsentAdminDetails ==
    (call.op \in {"create_issuer", "update_issuer"}
        /\ call.args.admin_details \in {Absent, Given(<<>>)})
    => /\ Len(call.invoked) = 1
       /\ call.response.status_code = 200 =>
             /\ call.outcome.kind = "return"
             /\ call.outcome.value.type = "Issuer"

\* C11: create and delete called with raw=True return the ClientRawResponse of the initial
\* response at once, build no poller and send no status poll; a poller therefore always has
\* raw = False, and what it returns in the end is the deserialized Pool (create) or None
\* (delete), never a ClientRawResponse
C11_RawReturnsInitialResponse ==
    /\ (call.op \in {"create", "delete"} /\ call.args.raw) =>
          /\ poller = NoPoller
          /\ Len(call.sent) <= 1
          /\ call.outcome.kind = "return" =>
                /\ call.outcome.value.type = "ClientRawResponse"
                /\ call.outcome.value.response = call.response
                /\ call.outcome.value.output =
                      IF call.op = "create"
                      THEN [type |-> "Pool", content |-> call.response.body] ELSE PyNone
    /\ poller.pc # "none" =>
          /\ call.op \in {"create", "delete"}
          /\ ~call.args.raw
          /\ ~poller.raw
    /\ (poller.pc = "done" /\ poller.output.kind = "return") =>
          poller.output.value =
              IF poller.op = "create"
              THEN [type |-> "Pool", content |-> poller.response.body] ELSE PyNone

C11_Witness ==
    /\ call.op = "create"
    /\ call.args.raw
    /\ call.response.status_code = 200
    /\ call.response.lro = "InProgress"
    /\ call.outcome.kind = "return"
    /\ call.outcome.value.type = "ClientRawResponse"
    /\ poller.pc = "none"

\* C12: delete takes exactly 200, 202 and 204 for success, in its initial response and in the
\* final response of its poller; every other pool operation, create's initial and final
\* response included, takes exactly 200, so a create answered with 201 or 202 raises
\* CloudError from create() and returns no poller
C12_SuccessStatusSets ==
    /\ (call.op \in {"internal_paging", "create", "update", "get", "disable_auto_scale",
                     "stop_resize"} /\ Answered) =>
          (call.outcome.kind = "raise" <=> call.response.status_code # 200)
    /\ (call.op = "delete" /\ Answered) =>
          (call.outcome.kind = "raise" <=> call.response.status_code \notin {200, 202, 204})
    /\ (call.op = "create" /\ Answered /\ call.response.status_code \in {201, 202}) =>
          /\ IsCloudErrorOf(call.outcome, call.response)
          /\ poller.pc = "none"
    /\ (poller.pc = "done" /\ poller.status \in TerminalStatuses) =>
          (poller.output.kind = "raise" <=>
              poller.response.status_code
                  \notin (IF poller.op = "delete" THEN {200, 202, 204} ELSE {200}))

C12_Witness ==
    /\ call.op = "create"
    /\ ~call.args.raw
    /\ call.response.status_code = 201
    /\ call.outcome.exc = "CloudError"
    /\ poller.pc = "none"

\* a page after the first is asked for: internal_paging ran with a next link
LaterPageFetched == call.op = "internal_paging" /\ IsGiven(call.args.next_link) /\ Answered

\* the names of the headers the "Construct headers" block of a page fetch sets
PageHeaderNames ==
    {"Content-Type"} \cup DOMAIN call.args.custom_headers
    \cup (IF self.config.generate_client_request_id THEN {"x-ms-client-request-id"} ELSE {})
    \cup (IF LocaleSet THEN {"accept-language"} ELSE {})

\* C13: a page fetch after the first is a GET whose URL is the next link of the service as it
\* came, with no query parameter at all and the headers of a first page; a page answered with
\* a status other than 200 raises CloudError with the request id and yields nothing
C13_NextPageRequest ==
    /\ LaterPageFetched =>
          LET request == call.sent[1]
          IN  /\ Len(call.sent) = 1
              /\ request.method = "GET"
              /\ Given(request.url) = call.args.next_link
              /\ Given(request.url) \in NextLinks
              /\ request.query = EmptyDict
              /\ request.body = NoBody
              /\ DOMAIN request.headers = PageHeaderNames
              /\ request.headers["Content-Type"] =
                    IF "Content-Type" \in DOMAIN call.args.custom_headers
                    THEN call.args.custom_headers["Content-Type"]
                    ELSE "application/json; charset=utf-8"
              /\ LocaleSet => request.headers["accept-language"] = self.config.accept_language
    /\ (call.op = "internal_paging" /\ Answered /\ call.response.status_code # 200) =>
          /\ IsCloudErrorOf(call.outcome, call.response)
          /\ paged.pc = "failed"
    /\ (call.op = "internal_paging" /\ Answered /\ call.response.status_code = 200) =>
          call.outcome = Return(call.response)

C13_Witness ==
    /\ LaterPageFetched
    /\ paged.pages = MaxPages
    /\ IsGiven(call.args.filter)
    /\ IsGiven(call.args.maxresults)
    /\ call.sent[1].url = <<"https://next-link/page">>
    /\ call.sent[1].query = EmptyDict

\* C14: every status poll of a create or delete poller carries the x-ms-client-request-id
\* of the initial PUT/DELETE of the same operation, however many polls are made
C14_PollsCarryInitialRequestId ==
    \A i \in DOMAIN poller.sent :
        /\ call.op \in {"create", "delete"}
        /\ Len(call.sent) = 1
        /\ call.sent[1].method \in {"PUT", "DELETE"}
        /\ "x-ms-client-request-id" \in DOMAIN call.sent[1].headers
        /\ "x-ms-client-request-id" \in DOMAIN poller.sent[i].headers
        /\ poller.sent[i].headers["x-ms-client-request-id"]
              = call.sent[1].headers["x-ms-client-request-id"]

C14_Witness ==
    /\ call.op = "delete"
    /\ call.args.custom_headers = EmptyDict
    /\ uuidSeq = MaxUuid
    /\ Len(poller.sent) = MaxPolls
    /\ poller.sent[MaxPolls].headers["x-ms-client-request-id"] = "uuid-1"
    /\ call.sent[1].headers["x-ms-client-request-id"] = "uuid-1"

\* the initial request of the operation a poller belongs to carried no client request id
NoInitialRequestId ==
    /\ poller.pc # "none"
    /\ "x-ms-client-request-id" \notin DOMAIN call.sent[1].headers

\* C15 as stated: when the initial request carried no x-ms-client-request-id, no status
\* request is sent and the poller never reaches a result: it can only end in the lookup error
C15_NoRequestIdNoResult ==
    NoInitialRequestId =>
        /\ poller.sent = <<>>
        /\ poller.pc = "done" => poller.output = Raise("KeyError", None)

\* C15, amended: when the initial request carried no x-ms-client-request-id, no status
\* request is ever sent; the first status poll ends the poller with the lookup error, and the
\* poller reaches a result only if the initial response already reports a terminal status,
\* the result then being that of the initial response
C15_NoRequestIdAmended ==
    NoInitialRequestId =>
        /\ ~self.config.generate_client_request_id
        /\ "x-ms-client-request-id" \notin DOMAIN call.args.custom_headers
        /\ poller.sent = <<>>
        /\ poller.polls = 0
        /\ poller.pc = "done" =>
              IF call.response.lro \in TerminalStatuses
              THEN poller.response = call.response /\ poller.output = ExpectedOutput(poller)
              ELSE poller.output = Raise("KeyError", None)

C15_Witness ==
    /\ NoInitialRequestId
    /\ call.op = "create"
    /\ call.response.lro = "InProgress"
    /\ poller.pc = "done"
    /\ poller.sent = <<>>
    /\ poller.output.exc = "KeyError"

\* the operations of PoolOperations that send a request of their own
PoolHttpOps == {"internal_paging", "create", "update", "delete", "get", "disable_auto_scale",
                "stop_resize"}

\* an argument of the latest call, None when the operation has no such argument
ArgumentOrNone(name) == IF name \in DOMAIN call.args THEN call.args[name] ELSE None

\* C16: in the request of a pool operation a custom header replaces the default Content-Type
\* and the generated x-ms-client-request-id, the If-Match / If-None-Match arguments replace a
\* custom header of that name when they are given, and the configured accept-language
\* replaces a custom accept-language
C16_HeaderPrecedence ==
    (call.op \in PoolHttpOps /\ Answered) =>
        LET h == call.sent[1].headers
            custom == call.args.custom_headers
            if_match == ArgumentOrNone("if_match")
            if_none_match == ArgumentOrNone("if_none_match")
        IN  /\ h["Content-Type"] = IF "Content-Type" \in DOMAIN custom
                                   THEN custom["Content-Type"]
                                   ELSE "application/json; charset=utf-8"
            /\ "x-ms-client-request-id" \in DOMAIN custom =>
                  h["x-ms-client-request-id"] = custom["x-ms-client-request-id"]
            /\ if_match # None => h["If-Match"] = if_match
            /\ if_none_match # None => h["If-None-Match"] = if_none_match
            /\ LocaleSet => h["accept-language"] = self.config.accept_language
            /\ (if_match = None /\ "If-Match" \in DOMAIN custom) =>
                  h["If-Match"] = custom["If-Match"]
            /\ (~LocaleSet /\ "accept-language" \in DOMAIN custom) =>
                  h["accept-language"] = custom["accept-language"]

C16_Witness ==
    /\ call.op = "create"
    /\ Answered
    /\ self.config.generate_client_request_id
    /\ LocaleSet
    /\ call.args.if_match = "*"
    /\ call.args.if_none_match = "*"
    /\ call.args.custom_headers # EmptyDict
    /\ call.args.custom_headers["If-Match"] = "custom-etag"
    /\ call.args.custom_headers["accept-language"] = "fr-FR"
    /\ call.sent[1].headers["If-Match"] = "*"
    /\ call.sent[1].headers["If-None-Match"] = "*"
    /\ call.sent[1].headers["accept-language"] = "en-US"
    /\ call.sent[1].headers["Content-Type"] = "text/plain"
    /\ call.sent[1].headers["x-ms-client-request-id"] = "caller-id"

\* the api_version PoolOperations.__init__ sets
ApiVersion == <<"2", "0", "1", "8", "-", "1", "2", "-", "0", "1">>

\* the latest call built its request from the URL template of its operation
TemplateRequestSent == call.op \in PoolHttpOps /\ Answered /\ ~LaterPageFetched

\* C17: api_version of PoolOperations is "2018-12-01" and stays so, no operation changes an
\* attribute of the client, and every request built from a URL template carries
\* api-version=2018-12-01
C17_ApiVersionConstant ==
    /\ [](/\ self.api_version = ApiVersion
          /\ TemplateRequestSent =>
                /\ "api-version" \in DOMAIN call.sent[1].query
                /\ call.sent[1].query["api-version"] = ApiVersion)
    /\ [][self' = self]_vars

C17_Witness ==
    /\ uuidSeq = MaxUuid
    /\ call.op = "stop_resize"
    /\ Answered
    /\ call.sent[1].query = ("api-version" :> ApiVersion)

\* the URL of one pool
PoolUrl(args) ==
    <<"/subscriptions/">> \o Quote(self.config.subscription_id)
    \o <<"/resourceGroups/">> \o Quote(args.resource_group_name)
    \o <<"/providers/Microsoft.Batch/batchAccounts/">> \o Quote(args.account_name)
    \o <<"/pools/">> \o Quote(args.pool_name)

\* C18: list_by_batch_account and get send GET, create PUT, update PATCH, delete DELETE,
\* disable_auto_scale and stop_resize POST; create, update, delete and get go to the URL of
\* the pool, disable_auto_scale and stop_resize to that URL with /disableAutoScale and
\* /stopResize appended
C18_MethodAndUrl ==
    TemplateRequestSent =>
        LET request == call.sent[1]
        IN  /\ request.method =
                  CASE call.op \in {"internal_paging", "get"} -> "GET"
                    [] call.op = "create" -> "PUT"
                    [] call.op = "update" -> "PATCH"
                    [] call.op = "delete" -> "DELETE"
                    [] call.op \in {"disable_auto_scale", "stop_resize"} -> "POST"
            /\ call.op \in {"create", "update", "delete", "get"} =>
                  request.url = PoolUrl(call.args)
            /\ call.op = "disable_auto_scale" =>
                  request.url = PoolUrl(call.args) \o <<"/disableAutoScale">>
            /\ call.op = "stop_resize" =>
                  request.url = PoolUrl(call.args) \o <<"/stopResize">>

C18_Witness ==
    /\ call.op = "update"
    /\ Answered
    /\ call.sent[1].method = "PATCH"
    /\ call.sent[1].url = <<"/subscriptions/", "s", "u", "b", "/resourceGroups/", "r", "g",
                            "/providers/Microsoft.Batch/batchAccounts/", "a", "c", "c", "t",
                            "/pools/", "p", "o", "o", "l">>

\* account_name is 3 to 24 characters of ^[-\w\._]+$, pool_name 1 to 64 of ^[a-zA-Z0-9_-]+$
AccountNameAccepted(name) ==
    Len(name) \in 3..24 /\ \A i \in 1..Len(name) : name[i] \in AccountNameChars
PoolNameAccepted(name) ==
    Len(name) \in 1..64 /\ \A i \in 1..Len(name) : name[i] \in PoolNameChars

\* the latest call is one that has to build its URL from the path arguments
BuildsUrl ==
    \/ call.op \in {"create", "update", "delete", "get", "disable_auto_scale", "stop_resize"}
    \/ call.op = "internal_paging" /\ ~IsGiven(call.args.next_link)

PathArgumentsAccepted ==
    /\ AccountNameAccepted(call.args.account_name)
    /\ call.op # "internal_paging" => PoolNameAccepted(call.args.pool_name)

\* C19: a pool operation whose account_name or pool_name breaks its constraints fails while
\* the URL is built: it raises, no request is sent and no poller is returned; with names
\* that keep the constraints the request is sent
C19_PathValidatedBeforeSend ==
    BuildsUrl =>
        /\ ~PathArgumentsAccepted =>
              /\ call.sent = <<>>
              /\ call.response = NoResponse
              /\ call.outcome.kind = "raise"
              /\ poller.pc = "none"
              /\ poller.sent = <<>>
        /\ PathArgumentsAccepted => Len(call.sent) = 1

C19_Witness ==
    /\ call.op = "delete"
    /\ AccountNameAccepted(call.args.account_name)
    /\ Len(call.args.pool_name) = 65
    /\ call.sent = <<>>
    /\ call.outcome.kind = "raise"

\* what the service answered to the latest call
ReplyOf(response) ==
    [status_code |-> response.status_code, headers |-> response.headers, lro |-> response.lro]

\* the requests an operation sends when called with arguments args
SentFor(op, args, reply) ==
    CASE op = "update" -> update_call(args, reply).sent
      [] op = "get" -> get_call(args, reply).sent
      [] op = "disable_auto_scale" -> disable_auto_scale_call(args, reply).sent
      [] op = "stop_resize" -> stop_resize_call(args, reply).sent
      [] op = "create" -> _create_initial(args, TRUE, reply).sent
      [] op = "delete" -> _delete_initial(args, TRUE, reply).sent
      [] op = "internal_paging" -> internal_paging_call(args, args.next_link, reply).sent
      [] op = "check_domain_availability" -> check_domain_availability_call(args, reply).sent

\* the requests the latest call would have sent had raw been the other way
TwinSent == SentFor(call.op, [call.args EXCEPT !.raw = ~@], ReplyOf(call.response))

\* the client request id of the latest call was freshly generated
FreshRequestId ==
    /\ self.config.generate_client_request_id
    /\ "x-ms-client-request-id" \notin DOMAIN call.args.custom_headers

SameButFreshRequestId(a, b) ==
    /\ a.method = b.method
    /\ a.url = b.url
    /\ a.query = b.query
    /\ a.body = b.body
    /\ DOMAIN a.headers = DOMAIN b.headers
    /\ \A k \in DOMAIN a.headers :
          (k = "x-ms-client-request-id" /\ FreshRequestId) \/ a.headers[k] = b.headers[k]

\* C20: what a pool operation or check_domain_availability sends does not depend on raw: the
\* call with the other value of raw and otherwise the same arguments sends as many requests,
\* with the same method, URL, query parameters, body and headers, the freshly generated
\* client request id apart
C20_RawLeavesRequestAlone ==
    call.op \in HttpOps =>
        /\ Len(TwinSent) = Len(call.sent)
        /\ \A i \in DOMAIN call.sent : SameButFreshRequestId(call.sent[i], TwinSent[i])

C20_Witness ==
    /\ call.op = "check_domain_availability"
    /\ call.args.raw
    /\ call.outcome.kind = "return"
    /\ FreshRequestId
    /\ Len(TwinSent) = 1
    /\ TwinSent[1].body = call.sent[1].body
    /\ TwinSent[1].headers["x-ms-client-request-id"]
          # call.sent[1].headers["x-ms-client-request-id"]

====
